---------------------------- MODULE Spec2Model ----------------------------
(***************************************************************************)
(* The ontology-mapping cache of scripts/process_sheet_and_save.py:        *)
(* _merge_mapping_list, _update_store_with_llm,                            *)
(* _snapshot_user_mappings_from_store and the run loop write_json_pretty.  *)
(*                                                                         *)
(* Python values are modelled as follows.                                  *)
(*   str        a sequence of code points: "a, b" is <<97, 44, 32, 98>>    *)
(*   Optional   None is <<>>, a present value v is <<v>>                   *)
(*   dict entry a record with the five keys the code writes                *)
(*   float      confidence c in [0.0, 1.0] is the integer 10 * c           *)
(***************************************************************************)
EXTENDS Integers, Sequences, FiniteSets, TLC

VARIABLES
    existing_list,  \* _merge_mapping_list: its first argument
    new_list,       \* _merge_mapping_list: its second argument
    merged_once,    \* _merge_mapping_list(existing_list, new_list)
    merged_twice,   \* _merge_mapping_list(merged_once, new_list)
    mstep,          \* how many of the two merges have been applied
    store,          \* write_json_pretty: the in-memory mapping store
    llm_out,        \* write_json_pretty: the last classifier response
    nupdates,       \* number of store updates applied so far
    snap_store,     \* _snapshot_user_mappings_from_store: its store argument
    snap_fields,    \* _snapshot_user_mappings_from_store: its fields argument
    snapshot,       \* its result, None before the call
    out_file,       \* the persisted output collection (the file at out_path)
    store_file,     \* the persisted store (the file at store_path), None if absent
    pc,             \* write_json_pretty: "idle", "rows" (in the loop), "save_store"
    existing_objs,  \* write_json_pretty: the in-memory record list
    enable_mapping, \* write_json_pretty: its argument
    api_key,        \* whether OPENROUTER_API_KEY is set for the run
    row,            \* the row_dict of the row handled last, None before any
    reply,          \* what the classifier service did for that row
    calls,          \* requests sent to the classifier for that row
    status,         \* how the last run ended: "ok" or "crashed"
    nrows,          \* rows handled so far, over all runs
    run_rows,       \* by normalized name, the row_dicts handled in the current run
    latest,         \* by normalized name, the row_dicts handled by the runs that
                    \* wrote the output, oldest first
    pre_out,        \* what the output file held when the last run was entered
    pre_store,      \* what the store file held when the last run was entered
    out_writes,     \* how often the last run has written the output file
    store_writes    \* how often the last run has written the store file

mergeVars == <<existing_list, new_list, merged_once, merged_twice, mstep>>
storeVars == <<store, llm_out, nupdates>>
snapVars == <<snap_store, snap_fields, snapshot>>
runVars == <<out_file, store_file, pc, existing_objs, enable_mapping, api_key,
             row, reply, calls, status, nrows, run_rows, latest,
             pre_out, pre_store, out_writes, store_writes>>
vars == <<mergeVars, storeVars, snapVars, runVars>>

-----------------------------------------------------------------------------
(* Python values *)

None == <<>>
Some(v) == <<v>>

\* Python truthiness of an Optional[str] / Optional[number]: None, "" and 0 are falsy
TruthyStr(o) == o # None /\ o[1] # <<>>

\* (x or ""): the string, with None replaced by ""
OrEmpty(o) == IF o = None THEN <<>> ELSE o[1]

\* (x or 0): the number, with None replaced by 0
OrZero(o) == IF o = None THEN 0 ELSE o[1]

\* str.strip(): the only whitespace of the modelled alphabet is the space, 32
RECURSIVE LStrip(_)
LStrip(s) == IF s # <<>> /\ Head(s) = 32 THEN LStrip(Tail(s)) ELSE s

RECURSIVE RStrip(_)
RStrip(s) ==
    IF s # <<>> /\ s[Len(s)] = 32 THEN RStrip(SubSeq(s, 1, Len(s) - 1)) ELSE s

Strip(s) == RStrip(LStrip(s))

\* str.lower() on ASCII letters
Lower(s) == [i \in 1..Len(s) |-> IF s[i] \in 65..90 THEN s[i] + 32 ELSE s[i]]

\* _norm on an Optional[str], and _norm_key
Norm(o) == Strip(OrEmpty(o))
NormKey(o) == Lower(Norm(o))

\* Python's order on str: lexicographic by code point, a proper prefix first
RECURSIVE StrLess(_, _)
StrLess(a, b) ==
    IF b = <<>> THEN FALSE
    ELSE IF a = <<>> THEN TRUE
    ELSE IF Head(a) # Head(b) THEN Head(a) < Head(b)
    ELSE StrLess(Tail(a), Tail(b))

\* sorted(S) for a finite set of str
RECURSIVE Sorted(_)
Sorted(S) ==
    IF S = {} THEN <<>>
    ELSE LET m == CHOOSE x \in S : \A y \in S \ {x} : StrLess(x, y)
         IN  <<m>> \o Sorted(S \ {m})

\* "; ".join(parts)
RECURSIVE JoinSemi(_)
JoinSemi(parts) ==
    IF parts = <<>> THEN <<>>
    ELSE IF Len(parts) = 1 THEN parts[1]
    ELSE parts[1] \o <<59, 32>> \o JoinSemi(Tail(parts))

-----------------------------------------------------------------------------
(* _merge_mapping_list *)

Entry(label, oid, onto, conf, expl) ==
    [concept_label |-> label, ontology_id |-> oid, ontology |-> onto,
     confidence |-> conf, explanation |-> expl]

\* the five-key copy the code makes of an incoming dict (lines 163-169, 291-297)
CopyEntry(m) ==
    Entry(m.concept_label, m.ontology_id, m.ontology, m.confidence, m.explanation)

\* (m.get("ontology_id") or "", m.get("ontology") or "")
KeyOf(m) == <<OrEmpty(m.ontology_id), OrEmpty(m.ontology)>>

\* position of the dict entry with this key in an insertion-ordered dict, 0 if none
IndexOfKey(by_id, key) ==
    IF \E i \in 1..Len(by_id) : KeyOf(by_id[i]) = key
    THEN CHOOSE i \in 1..Len(by_id) : KeyOf(by_id[i]) = key
    ELSE 0

\* the dict comprehension of line 145: a repeated key keeps its first position
\* and takes the last value
RECURSIVE DictOfList(_, _)
DictOfList(by_id, lst) ==
    IF lst = <<>> THEN by_id
    ELSE LET i == IndexOfKey(by_id, KeyOf(Head(lst)))
         IN  DictOfList(IF i = 0 THEN Append(by_id, Head(lst))
                        ELSE [by_id EXCEPT ![i] = Head(lst)], Tail(lst))

\* a merge that lets the incoming confidence win whatever the stored one is
MergeConfidenceLastWins(cur, m) == m.confidence

\* lines 150-155: keep the higher confidence
MergeConfidence(cur, m) ==
    IF OrZero(m.confidence) > OrZero(cur.confidence)
    THEN m.confidence ELSE cur.confidence

\* lines 157-158: prefer a non-null concept_label
MergeLabel(cur, m) ==
    IF ~TruthyStr(cur.concept_label) /\ TruthyStr(m.concept_label)
    THEN m.concept_label ELSE cur.concept_label

\* lines 160-161: the set of stripped truthy explanations, sorted and joined
MergeExplanation(cur, m) ==
    LET ex_set == {Strip(e[1]) : e \in {x \in {cur.explanation, m.explanation} :
                                           TruthyStr(x)}}
    IN  IF ex_set = {} THEN None ELSE Some(JoinSemi(Sorted(ex_set)))

\* lines 148-161: the in-place update of the stored dict
MergeInto(cur, m) ==
    [cur EXCEPT !.confidence = MergeConfidence(cur, m),
                !.concept_label = MergeLabel(cur, m),
                !.explanation = MergeExplanation(cur, m)]

\* a merge that appends every incoming entry without looking for its key
MergeOneAlwaysAppend(by_id, m) == Append(by_id, CopyEntry(m))

\* one iteration of the loop of line 146
MergeOne(by_id, m) ==
    LET i == IndexOfKey(by_id, KeyOf(m))
    IN  IF i # 0 THEN [by_id EXCEPT ![i] = MergeInto(by_id[i], m)]
        ELSE Append(by_id, CopyEntry(m))

RECURSIVE MergeLoop(_, _)
MergeLoop(by_id, lst) ==
    IF lst = <<>> THEN by_id ELSE MergeLoop(MergeOne(by_id, Head(lst)), Tail(lst))

MergeMappingList(existing, new) == MergeLoop(DictOfList(<<>>, existing), new)

-----------------------------------------------------------------------------
(* Bounds and inputs *)

\* longest incoming entry list the classifier is taken to return for one term
MaxItems == 2

\* Entries the classifier may return (the schema of lines 184-190):
\*   label "H" <<72>>, "B" <<66>>; ontology_id "Q5" <<81,53>>, "Q1" <<81,49>>;
\*   ontology "W" <<87>>; confidence 0.0, 0.5, 0.9; explanation "x", "y", " x", ""
EntryInputs ==
    { Entry(Some(<<72>>), Some(<<81, 53>>), Some(<<87>>), Some(9), Some(<<120>>)),
      Entry(None, Some(<<81, 53>>), Some(<<87>>), Some(5), Some(<<121>>)),
      Entry(Some(<<72>>), Some(<<81, 53>>), Some(<<87>>), None, Some(<<32, 120>>)),
      Entry(Some(<<66>>), Some(<<81, 49>>), Some(<<87>>), Some(9), None),
      Entry(None, None, None, None, None),
      Entry(Some(<<>>), Some(<<>>), None, Some(0), Some(<<>>)),
      Entry(Some(<<72>>), None, None, Some(5), Some(<<120>>)) }

\* all lists over S of length at most n
RECURSIVE ListsUpTo(_, _)
ListsUpTo(S, n) ==
    IF n = 0 THEN {<<>>}
    ELSE LET shorter == ListsUpTo(S, n - 1)
         IN  shorter \cup {Append(l, x) : l \in {k \in shorter : Len(k) = n - 1}, x \in S}

NewLists == ListsUpTo(EntryInputs, MaxItems)

\* bucket contents the code itself can have produced from an empty bucket
ExistingLists == {MergeMappingList(<<>>, l) : l \in NewLists}

-----------------------------------------------------------------------------
(* SpecMerge: _merge_mapping_list applied once and again with the same input *)

InitStoreIdle ==
    /\ store = <<>>
    /\ llm_out = <<>>
    /\ nupdates = 0

InitSnapIdle ==
    /\ snap_store = <<>>
    /\ snap_fields = <<>>
    /\ snapshot = <<>>

InitRunIdle ==
    /\ out_file = <<>>
    /\ store_file = <<>>
    /\ pc = "idle"
    /\ existing_objs = <<>>
    /\ enable_mapping = FALSE
    /\ api_key = FALSE
    /\ row = <<>>
    /\ reply = "none"
    /\ calls = 0
    /\ status = "ok"
    /\ nrows = 0
    /\ run_rows = <<>>
    /\ latest = <<>>
    /\ pre_out = <<>>
    /\ pre_store = None
    /\ out_writes = 0
    /\ store_writes = 0

InitMerge ==
    /\ existing_list \in ExistingLists
    /\ new_list \in NewLists
    /\ merged_once = <<>>
    /\ merged_twice = <<>>
    /\ mstep = 0
    /\ InitStoreIdle
    /\ InitSnapIdle
    /\ InitRunIdle

MergeFirst ==
    /\ mstep = 0
    /\ merged_once' = MergeMappingList(existing_list, new_list)
    /\ mstep' = 1
    /\ UNCHANGED <<existing_list, new_list, merged_twice, storeVars, snapVars, runVars>>

MergeSecond ==
    /\ mstep = 1
    /\ merged_twice' = MergeMappingList(merged_once, new_list)
    /\ mstep' = 2
    /\ UNCHANGED <<existing_list, new_list, merged_once, storeVars, snapVars, runVars>>

NextMerge == MergeFirst \/ MergeSecond

SpecMerge == InitMerge /\ [][NextMerge]_vars

\* bucket contents compared as sets of entries
SameContents(a, b) == {a[i] : i \in 1..Len(a)} = {b[i] : i \in 1..Len(b)}

\* C1: merging the same incoming list a second time leaves the bucket contents
\* as they were after the first merge
MergeIdempotent ==
    mstep = 2 => SameContents(merged_twice, merged_once)

-----------------------------------------------------------------------------
(* The mapping store and _update_store_with_llm *)

Cats == {"Role", "Expertise", "Interest"}

\* a term bucket is a function from the terms it holds to their entry lists
EmptyBucket == [t \in {} |-> <<>>]

\* {"Role": {}, "Expertise": {}, "Interest": {}}
EmptyStore == [cat \in Cats |-> EmptyBucket]

\* store[cat].get(term, [])
BucketGet(bucket, term) == IF term \in DOMAIN bucket THEN bucket[term] ELSE <<>>

\* A classifier item: an entry with the source_term that keys the cache
Item(term, e) ==
    [source_term |-> term, concept_label |-> e.concept_label,
     ontology_id |-> e.ontology_id, ontology |-> e.ontology,
     confidence |-> e.confidence, explanation |-> e.explanation]

\* A parsed JSON value under one category key of the response: absent, a list of
\* item objects, or a non-empty string
Absent == [t |-> "absent", items |-> <<>>]
ListOf(items) == [t |-> "list", items |-> items]
NotAList == [t |-> "str", items |-> <<>>]

\* llm_out.get(cat) or []
ItemsOf(json, cat) == json.body[cat].items

\* a source_term used as written, neither trimmed nor case-folded
TermOfRaw(m) == OrEmpty(m.source_term)

\* line 288: the normalized source_term of an item
TermOf(m) == NormKey(m.source_term)

\* lines 286-297: the terms of by_term, and the list grouped under one of them
TermsOf(items) == {TermOf(items[i]) : i \in 1..Len(items)} \ {<<>>}

RECURSIVE GroupFor(_, _)
GroupFor(items, term) ==
    IF items = <<>> THEN <<>>
    ELSE IF TermOf(Head(items)) = term
         THEN <<CopyEntry(Head(items))>> \o GroupFor(Tail(items), term)
         ELSE GroupFor(Tail(items), term)

\* lines 299-301 for one category
UpdateBucket(bucket, items) ==
    [t \in DOMAIN bucket \cup TermsOf(items) |->
        IF t \in TermsOf(items)
        THEN MergeMappingList(BucketGet(bucket, t), GroupFor(items, t))
        ELSE bucket[t]]

\* _update_store_with_llm on a response whose category values are lists of objects
UpdateStoreWithLlm(st, json) ==
    [cat \in Cats |-> UpdateBucket(st[cat], ItemsOf(json, cat))]

-----------------------------------------------------------------------------
(* SpecStore: any sequence of store updates, starting from an empty store *)

\* number of store updates in a behaviour
MaxUpdates == 2

\* source_term "a" <<97>> and "A " <<65, 32>>; two identity keys, ("Q5", "W") and
\* ("", ""), the second written with None and with ""; confidence None, 0.0, 0.5, 0.9
ItemInputs ==
    { Item(Some(<<97>>),
           Entry(Some(<<72>>), Some(<<81, 53>>), Some(<<87>>), Some(9), Some(<<120>>))),
      Item(Some(<<65, 32>>),
           Entry(None, Some(<<81, 53>>), Some(<<87>>), Some(5), Some(<<121>>))),
      Item(Some(<<97>>), Entry(None, None, None, None, None)),
      Item(Some(<<97>>), Entry(Some(<<>>), Some(<<>>), None, Some(0), Some(<<>>))),
      Item(Some(<<97>>), Entry(Some(<<72>>), None, Some(<<>>), Some(5), Some(<<120>>))) }

\* the incoming lists of one response: no item, one item, or two in either order
\* (two items of one term and key make a list that repeats an identity key)
ItemLists ==
    {<<>>} \cup {<<x>> : x \in ItemInputs} \cup {<<x, y>> : x, y \in ItemInputs}

\* a well-formed response with entries under one category
ObjectFor(cat, items) ==
    [shape |-> "object",
     body |-> [c \in Cats |-> IF c = cat THEN ListOf(items) ELSE ListOf(<<>>)]]

LlmObjects == {ObjectFor(cat, items) : cat \in Cats, items \in ItemLists}

InitMergeIdle ==
    /\ existing_list = <<>>
    /\ new_list = <<>>
    /\ merged_once = <<>>
    /\ merged_twice = <<>>
    /\ mstep = 0

InitStore ==
    /\ store = EmptyStore
    /\ llm_out = None
    /\ nupdates = 0
    /\ InitMergeIdle
    /\ InitSnapIdle
    /\ InitRunIdle

UpdateStep ==
    /\ nupdates < MaxUpdates
    /\ \E json \in LlmObjects :
        /\ store' = UpdateStoreWithLlm(store, json)
        /\ llm_out' = Some(json)
    /\ nupdates' = nupdates + 1
    /\ UNCHANGED <<mergeVars, snapVars, runVars>>

NextStore == UpdateStep

SpecStore == InitStore /\ [][NextStore]_vars

\* the identity keys of a list, in order
KeysOf(lst) == [i \in 1..Len(lst) |-> KeyOf(lst[i])]

NoRepeat(s) == \A i, j \in 1..Len(s) : s[i] = s[j] => i = j

\* C2: no term bucket of any category holds two entries with the same identity key
IdentityUnique ==
    \A cat \in Cats : \A t \in DOMAIN store[cat] : NoRepeat(KeysOf(store[cat][t]))

\* a bucket to which an incoming list with a repeated key, and a key already
\* stored, have been merged
IdentityUniqueWitness ==
    /\ nupdates = 2
    /\ \E cat \in Cats :
        /\ ~NoRepeat(KeysOf(GroupFor(ItemsOf(llm_out[1], cat), <<97>>)))
        /\ <<97>> \in DOMAIN store[cat]
        /\ Len(store[cat][<<97>>]) = 2

\* the incoming entries of the last response for one category, term and key
IncomingFor(cat, t, key) ==
    LET grp == GroupFor(ItemsOf(llm_out[1], cat), t)
    IN  {grp[i] : i \in {k \in 1..Len(grp) : KeyOf(grp[k]) = key}}

\* what one store update may do to the entry stored under (cat, t) at position i
ConfidenceStep(cat, t, i) ==
    LET old == store[cat][t][i]
        j == IF t \in DOMAIN store'[cat]
             THEN IndexOfKey(store'[cat][t], KeyOf(old)) ELSE 0
    IN  /\ j # 0
        /\ LET new == store'[cat][t][j]
           IN  /\ OrZero(new.confidence) >= OrZero(old.confidence)
               /\ new.confidence # old.confidence =>
                    /\ OrZero(new.confidence) > OrZero(old.confidence)
                    /\ new.confidence # None
                    /\ \E m \in IncomingFor(cat, t, KeyOf(old))' :
                          m.confidence = new.confidence

\* C3: a merge never lowers the confidence stored for an identity key, and replaces
\* it only by an incoming confidence that is strictly greater (null counted as 0)
ConfidenceMonotone ==
    [][\A cat \in Cats : \A t \in DOMAIN store[cat] :
          \A i \in 1..Len(store[cat][t]) : ConfidenceStep(cat, t, i)]_vars

\* a stored 0.9 has met an incoming 0.5 of the same key, and a stored null (or 0.0)
\* confidence of another key has been overwritten by an incoming 0.5
ConfidenceMonotoneWitness ==
    /\ nupdates = 2
    /\ \E cat \in Cats :
        /\ \E m \in IncomingFor(cat, <<97>>, <<<<81, 53>>, <<87>>>>) :
              m.confidence = Some(5)
        /\ \E m \in IncomingFor(cat, <<97>>, <<<<>>, <<>>>>) : m.confidence = Some(5)
        /\ <<97>> \in DOMAIN store[cat]
        /\ \E i, j \in 1..Len(store[cat][<<97>>]) :
              /\ KeyOf(store[cat][<<97>>][i]) = <<<<81, 53>>, <<87>>>>
              /\ store[cat][<<97>>][i].confidence = Some(9)
              /\ KeyOf(store[cat][<<97>>][j]) = <<<<>>, <<>>>>
              /\ store[cat][<<97>>][j].confidence = Some(5)
              /\ store[cat][<<97>>][j].ontology_id = None

-----------------------------------------------------------------------------
(* _snapshot_user_mappings_from_store *)

\* str.replace(" and ", ","): leftmost matches, not overlapping
RECURSIVE ReplaceAnd(_)
ReplaceAnd(s) ==
    IF s = <<>> THEN <<>>
    ELSE IF Len(s) >= 5 /\ SubSeq(s, 1, 5) = <<32, 97, 110, 100, 32>>
         THEN <<44>> \o ReplaceAnd(SubSeq(s, 6, Len(s)))
         ELSE <<Head(s)>> \o ReplaceAnd(Tail(s))

\* str.split(",")
RECURSIVE SplitComma(_)
SplitComma(s) ==
    IF \A i \in 1..Len(s) : s[i] # 44 THEN <<s>>
    ELSE LET i == CHOOSE k \in 1..Len(s) : s[k] = 44 /\ \A j \in 1..(k - 1) : s[j] # 44
         IN  <<SubSeq(s, 1, i - 1)>> \o SplitComma(SubSeq(s, i + 1, Len(s)))

\* [c.strip() for c in pieces if c.strip()]
RECURSIVE StripNonEmpty(_)
StripNonEmpty(pieces) ==
    IF pieces = <<>> THEN <<>>
    ELSE IF Strip(Head(pieces)) = <<>> THEN StripNonEmpty(Tail(pieces))
         ELSE <<Strip(Head(pieces))>> \o StripNonEmpty(Tail(pieces))

\* line 317
Chunks(term) == StripNonEmpty(SplitComma(ReplaceAnd(term)))

\* A snapshot list holds the store's own dicts, not copies: an element is named
\* by the bucket term and the position of the dict in that bucket's list (a merge
\* keeps every stored dict at its position and appends the new ones)
Ref(term, idx) == [term |-> term, idx |-> idx]

RefsOfBucket(bucket, term) ==
    [i \in 1..Len(BucketGet(bucket, term)) |-> Ref(term, i)]

\* a fallback loop that appends every entry of every chunk, seen or not
AggregateNoDedup(bucket, chunks, pos, seen, aggregates) ==
    LET RECURSIVE All(_)
        All(cs) == IF cs = <<>> THEN <<>>
                   ELSE RefsOfBucket(bucket, Head(cs)) \o All(Tail(cs))
    IN  All(chunks)

\* lines 318-325: the loops over the chunks and over each chunk's list; pos is
\* the position reached in the list of the first chunk left
RECURSIVE Aggregate(_, _, _, _, _)
Aggregate(bucket, chunks, pos, seen, aggregates) ==
    IF chunks = <<>> THEN aggregates
    ELSE LET lst == BucketGet(bucket, Head(chunks))
         IN  IF pos > Len(lst)
             THEN Aggregate(bucket, Tail(chunks), 1, seen, aggregates)
             ELSE IF KeyOf(lst[pos]) \in seen
                  THEN Aggregate(bucket, chunks, pos + 1, seen, aggregates)
                  ELSE Aggregate(bucket, chunks, pos + 1,
                                 seen \cup {KeyOf(lst[pos])},
                                 Append(aggregates, Ref(Head(chunks), pos)))

\* lines 307-326 for one category: the dicts the snapshot list holds
SnapshotRefs(bucket, field) ==
    LET term == NormKey(field)
    IN  IF term = <<>> THEN <<>>
        ELSE IF term \in DOMAIN bucket THEN RefsOfBucket(bucket, term)
        ELSE Aggregate(bucket, Chunks(term), 1, {}, <<>>)

\* the entries a list of dicts holds, read from the store as it now is
Deref(bucket, refs) == [k \in 1..Len(refs) |-> bucket[refs[k].term][refs[k].idx]]

\* _snapshot_user_mappings_from_store, as dicts and as the entries they hold
SnapshotUserMappingsRefs(st, fields) ==
    [cat \in Cats |-> SnapshotRefs(st[cat], Some(fields[cat]))]

SnapshotCat(st, fields, cat) ==
    Deref(st[cat], SnapshotRefs(st[cat], Some(fields[cat])))

SnapshotUserMappingsFromStore(st, fields) ==
    [cat \in Cats |-> SnapshotCat(st, fields, cat)]

-----------------------------------------------------------------------------
(* SpecSnapshot: one call of _snapshot_user_mappings_from_store *)

\* source_term "a" <<97>>, "b" <<98>>, "a b" <<97, 32, 98>>; entry A is ("Q5", "W"),
\* entry B is ("Q1", "W"); under "b" entry A carries another confidence and
\* explanation than under "a"
SnapItems ==
    { Item(Some(<<97>>),
           Entry(Some(<<72>>), Some(<<81, 53>>), Some(<<87>>), Some(9), Some(<<120>>))),
      Item(Some(<<98>>),
           Entry(Some(<<66>>), Some(<<81, 49>>), Some(<<87>>), Some(9), None)),
      Item(Some(<<98>>),
           Entry(Some(<<72>>), Some(<<81, 53>>), Some(<<87>>), Some(5), Some(<<121>>))),
      Item(Some(<<97, 32, 98>>),
           Entry(Some(<<66>>), Some(<<81, 49>>), Some(<<87>>), Some(5), None)) }

SnapLists == ListsUpTo(SnapItems, MaxItems)

\* the stores two classifier responses leave behind
SnapStores ==
    {UpdateStoreWithLlm(UpdateStoreWithLlm(EmptyStore, ObjectFor("Interest", l1)),
                        ObjectFor("Interest", l2)) : l1, l2 \in SnapLists}

\* "", "A", "a b", "AI, b" is here "a, b" <<97,44,32,98>>, "b and a",
\* " a,,b ", "a and and b", "b,a and b"
FieldInputs ==
    { <<>>, <<65>>, <<97, 32, 98>>, <<97, 44, 32, 98>>,
      <<98, 32, 97, 110, 100, 32, 97>>,
      <<32, 97, 44, 44, 98, 32>>,
      <<97, 32, 97, 110, 100, 32, 97, 110, 100, 32, 98>>,
      <<98, 44, 97, 32, 97, 110, 100, 32, 98>> }

\* a row's fields with only Interest filled in
InterestOnly(f) ==
    [k \in {"Name", "Role", "Expertise", "Interest"} |->
        IF k = "Interest" THEN f ELSE <<>>]

InitSnapshot ==
    /\ snap_store \in SnapStores
    /\ snap_fields \in {InterestOnly(f) : f \in FieldInputs}
    /\ snapshot = None
    /\ InitMergeIdle
    /\ InitStoreIdle
    /\ InitRunIdle

TakeSnapshot ==
    /\ snapshot = None
    /\ snapshot' = Some(SnapshotUserMappingsFromStore(snap_store, snap_fields))
    /\ UNCHANGED <<snap_store, snap_fields, mergeVars, storeVars, runVars>>

NextSnapshot == TakeSnapshot

SpecSnapshot == InitSnapshot /\ [][NextSnapshot]_vars

\* the chunks a field value is split into, written out for the field values above
ExpectedChunks(term) ==
    CASE term = <<97, 44, 32, 98>> -> <<<<97>>, <<98>>>>
      [] term = <<98, 32, 97, 110, 100, 32, 97>> -> <<<<98>>, <<97>>>>
      [] term = <<97, 44, 44, 98>> -> <<<<97>>, <<98>>>>
      [] term = <<97, 32, 97, 110, 100, 32, 97, 110, 100, 32, 98>>
            -> <<<<97>>, <<97, 110, 100, 32, 98>>>>
      [] term = <<98, 44, 97, 32, 97, 110, 100, 32, 98>> -> <<<<98>>, <<97>>, <<98>>>>
      [] OTHER -> <<term>>

\* the lists of the chunks' buckets, one after the other
RECURSIVE Flatten(_, _)
Flatten(bucket, chunks) ==
    IF chunks = <<>> THEN <<>>
    ELSE BucketGet(bucket, Head(chunks)) \o Flatten(bucket, Tail(chunks))

\* the elements of a list whose identity key no earlier element has, in order
RECURSIVE FirstOccurrences(_, _)
FirstOccurrences(lst, n) ==
    IF n = 0 THEN <<>>
    ELSE IF \E j \in 1..(n - 1) : KeyOf(lst[j]) = KeyOf(lst[n])
         THEN FirstOccurrences(lst, n - 1)
         ELSE Append(FirstOccurrences(lst, n - 1), lst[n])

\* C9: when the normalized field value is no key of the bucket, the snapshot is
\* the union of its chunks' entries in first-seen order, each identity key once,
\* the first occurrence kept as it is
FallbackDedup ==
    snapshot # None =>
        LET term == NormKey(Some(snap_fields["Interest"]))
            bucket == snap_store["Interest"]
            all == Flatten(bucket, ExpectedChunks(term))
        IN  (term # <<>> /\ term \notin DOMAIN bucket) =>
                /\ snapshot[1]["Interest"] = FirstOccurrences(all, Len(all))
                /\ NoRepeat(KeysOf(snapshot[1]["Interest"]))

\* "a, b" with "a" -> [A] and "b" -> [B, A'] has given exactly [A, B]
FallbackDedupWitness ==
    /\ snapshot # None
    /\ snap_fields["Interest"] = <<97, 44, 32, 98>>
    /\ DOMAIN snap_store["Interest"] = {<<97>>, <<98>>}
    /\ KeysOf(snap_store["Interest"][<<97>>]) = <<<<<<81, 53>>, <<87>>>>>>
    /\ KeysOf(snap_store["Interest"][<<98>>]) =
          <<<<<<81, 49>>, <<87>>>>, <<<<81, 53>>, <<87>>>>>>
    /\ snap_store["Interest"][<<98>>][2].confidence = Some(5)
    /\ snapshot[1]["Interest"] =
          <<snap_store["Interest"][<<97>>][1], snap_store["Interest"][<<98>>][1]>>

-----------------------------------------------------------------------------
(* write_json_pretty and the classifier call *)

Fields == {"Name", "Role", "Expertise", "Interest"}

\* line 359: the row's cells under the mapped headers, each through _norm
RowDict(cells) == [k \in Fields |-> Norm(Some(cells[k]))]

NoRefs == [cat \in Cats |-> <<>>]

\* An in-memory record: a record loaded from the output file holds the parsed
\* mapping lists (loaded); one handled in this run holds the store's dicts (refs)
LoadedObj(o) == [fields |-> o.fields, live |-> FALSE, loaded |-> o.mappings,
                 refs |-> NoRefs]

\* _load_existing_json on the file this program wrote
LoadExistingJson(file) == [i \in 1..Len(file) |-> LoadedObj(file[i])]

\* _load_store: an absent file gives the three empty categories
LoadStore(file) == IF file = None THEN EmptyStore ELSE file[1]

\* an index that compares the names as written, not case-folded
IndexByNameCaseSensitive(objs, key) ==
    LET hits == {i \in 1..Len(objs) : Norm(Some(objs[i].fields["Name"])) = key}
    IN  IF hits = {} THEN 0 ELSE CHOOSE i \in hits : \A j \in hits : j <= i

\* _index_by_name, looked up: the last record whose normalized name is key, or 0
IndexByName(objs, key) ==
    LET hits == {i \in 1..Len(objs) : NormKey(Some(objs[i].fields["Name"])) = key}
    IN  IF hits = {} THEN 0 ELSE CHOOSE i \in hits : \A j \in hits : j <= i

\* lines 365-371: the position of the row's record, updated in place or appended
PlaceRow(objs, key, row_dict) ==
    LET i == IndexByName(objs, key)
    IN  IF i # 0 THEN [objs EXCEPT ![i].fields = row_dict]
        ELSE Append(objs, [fields |-> row_dict, live |-> FALSE,
                           loaded |-> NoRefs, refs |-> NoRefs])

\* lines 374 and 385: obj["mappings"] = the snapshot list of the store's dicts
SetMappings(objs, key, refs) ==
    [objs EXCEPT ![IndexByName(objs, key)] =
        [fields |-> @.fields, live |-> TRUE, loaded |-> NoRefs, refs |-> refs]]

\* json.dump(existing_objs): every dict is written with the values it now holds
DumpObjs(objs, st) ==
    [i \in 1..Len(objs) |->
        [fields |-> objs[i].fields,
         mappings |-> IF objs[i].live
                      THEN [cat \in Cats |-> Deref(st[cat], objs[i].refs[cat])]
                      ELSE objs[i].loaded]]

\* line 378: some category has a non-empty field and an empty snapshot
Missing(snap, row_dict) ==
    \E cat \in Cats : Len(snap[cat]) = 0 /\ NormKey(Some(row_dict[cat])) # <<>>

\* one request per category that is not covered
ClassifierCallsPerCategory(enable, key, snap, row_dict) ==
    IF enable /\ key
    THEN Cardinality({cat \in Cats :
            Len(snap[cat]) = 0 /\ NormKey(Some(row_dict[cat])) # <<>>})
    ELSE 0

\* lines 377-380 and 239-243: the requests sent for one row
ClassifierCalls(enable, key, snap, row_dict) ==
    IF enable /\ Missing(snap, row_dict) /\ key THEN 1 ELSE 0

\* What the service does with a request: no answer (network error), a non-2xx
\* status, a body that is not JSON, or a body that parses to a JSON value
Reply(kind, json) == [kind |-> kind, json |-> json]

\* _call_openrouter: the parsed content, None on any exception
CallOpenrouter(rep) == IF rep.kind = "json" THEN rep.json ELSE None

\* line 381 (if llm_out): None, {} are falsy; a non-empty array or object is not
TruthyJson(j) ==
    /\ j # None
    /\ \/ j[1].shape = "array"
       \/ \E cat \in Cats : j[1].body[cat].t # "absent"

\* _update_store_with_llm raises: llm_out has no .get (an array), or a category
\* holds a string, whose characters have no .get
Raises(json) ==
    \/ json.shape = "array"
    \/ \E cat \in Cats : json.body[cat].t = "str"

\* a snapshot that is not taken again after the store has been updated
StaleSnapshot(before, after, row_dict) == SnapshotUserMappingsRefs(before, row_dict)

\* line 385: the snapshot taken again from the updated store
RefreshedSnapshot(before, after, row_dict) == SnapshotUserMappingsRefs(after, row_dict)

-----------------------------------------------------------------------------
(* Spec: runs of write_json_pretty over the persisted files *)

\* rows handled in a behaviour, over all its runs
\* a loop body that saved the store after handling its row
StoreFileSavedEachRow(file, st) == Some(st)

\* lines 358-385: the loop body changes the store in memory only (line 383) and
\* opens no file for writing, so the store file is after a row what it was before
StoreFileAfterRow(file, st) == file

MaxRows == 3

\* Name "Ann" <<65,110,110>>, " ann " , "Bob" <<66,111,98>>, and no name;
\* fields "a b", "a", "a, b"
RowInputs ==
    { [Name |-> <<65, 110, 110>>, Role |-> <<>>, Expertise |-> <<>>,
       Interest |-> <<97, 32, 98>>],
      [Name |-> <<32, 97, 110, 110, 32>>, Role |-> <<97>>, Expertise |-> <<>>,
       Interest |-> <<97, 44, 32, 98>>],
      [Name |-> <<66, 111, 98>>, Role |-> <<>>, Expertise |-> <<>>,
       Interest |-> <<97>>],
      [Name |-> <<>>, Role |-> <<>>, Expertise |-> <<>>, Interest |-> <<97>>] }

EntryA == Entry(Some(<<72>>), Some(<<81, 53>>), Some(<<87>>), Some(9), Some(<<120>>))
EntryALow == Entry(None, Some(<<81, 53>>), Some(<<87>>), Some(5), Some(<<121>>))
EntryB == Entry(Some(<<66>>), Some(<<81, 49>>), Some(<<87>>), Some(9), None)

ObjectOf(role, expertise, interest) ==
    [shape |-> "object",
     body |-> [c \in Cats |-> IF c = "Role" THEN role
                              ELSE IF c = "Expertise" THEN expertise ELSE interest]]

JsonArray == [shape |-> "array", body |-> [c \in Cats |-> Absent]]

\* The answers of the service:
\*   failures before any JSON value exists;
\*   {"Role": [], "Expertise": [], "Interest": [a -> A, b -> B]};
\*   {"Role": [A  -> A], "Expertise": [], "Interest": [a -> A', a -> B, (none) -> A]};
\*   {"Role": [], "Expertise": [], "Interest": [a b -> A]};
\*   {"Interest": [a -> A]} (two keys missing); {}; [1]; {"Interest": "x"}
Replies ==
    { Reply("neterr", None), Reply("http", None), Reply("badjson", None),
      Reply("json", Some(ObjectOf(ListOf(<<>>), ListOf(<<>>),
            ListOf(<<Item(Some(<<97>>), EntryA), Item(Some(<<98>>), EntryB)>>)))),
      Reply("json", Some(ObjectOf(ListOf(<<Item(Some(<<65, 32>>), EntryA)>>), ListOf(<<>>),
            ListOf(<<Item(Some(<<97>>), EntryALow), Item(Some(<<97>>), EntryB),
                     Item(None, EntryA)>>)))),
      Reply("json", Some(ObjectOf(ListOf(<<>>), ListOf(<<>>),
            ListOf(<<Item(Some(<<97, 32, 98>>), EntryA)>>)))),
      Reply("json", Some(ObjectOf(Absent, Absent,
            ListOf(<<Item(Some(<<97>>), EntryA)>>)))),
      Reply("json", Some(ObjectOf(Absent, Absent, Absent))),
      Reply("json", Some(JsonArray)),
      Reply("json", Some(ObjectOf(Absent, Absent, NotAList))) }

NoReply == Reply("none", None)

\* f with key k set to v
Put(f, k, v) == [x \in DOMAIN f \cup {k} |-> IF x = k THEN v ELSE f[x]]

\* the list under key k of f, empty if there is none
ListAt(f, k) == IF k \in DOMAIN f THEN f[k] ELSE <<>>

\* the lists of g appended to those of f, key by key
Extend(f, g) == [x \in DOMAIN f \cup DOMAIN g |-> ListAt(f, x) \o ListAt(g, x)]

Init ==
    /\ out_file = <<>>
    /\ store_file = None
    /\ pc = "idle"
    /\ existing_objs = <<>>
    /\ store = EmptyStore
    /\ llm_out = None
    /\ enable_mapping = FALSE
    /\ api_key = FALSE
    /\ row = None
    /\ reply = "none"
    /\ calls = 0
    /\ status = "ok"
    /\ nrows = 0
    /\ run_rows = <<>>
    /\ latest = <<>>
    /\ pre_out = <<>>
    /\ pre_store = None
    /\ out_writes = 0
    /\ store_writes = 0
    /\ nupdates = 0
    /\ InitMergeIdle
    /\ InitSnapIdle

idleVars == <<mergeVars, snapVars, nupdates>>

\* lines 339-343: the source returned no values at all
RunNoValues ==
    /\ pc = "idle"
    /\ out_file' = <<>>
    /\ status' = "ok"
    /\ pre_out' = out_file
    /\ pre_store' = store_file
    /\ out_writes' = 1
    /\ store_writes' = 0
    /\ UNCHANGED <<store_file, pc, existing_objs, store, llm_out, enable_mapping,
                   api_key, row, reply, calls, nrows, run_rows, latest, idleVars>>

\* lines 345-356: a header and some rows; the output and the store are loaded
StartRun ==
    /\ pc = "idle"
    /\ \E enable \in BOOLEAN, key \in BOOLEAN :
        /\ enable_mapping' = enable
        /\ api_key' = key
    /\ existing_objs' = LoadExistingJson(out_file)
    /\ store' = LoadStore(store_file)
    /\ pc' = "rows"
    /\ row' = None
    /\ reply' = "none"
    /\ calls' = 0
    /\ llm_out' = None
    /\ run_rows' = <<>>
    /\ pre_out' = out_file
    /\ pre_store' = store_file
    /\ out_writes' = 0
    /\ store_writes' = 0
    /\ UNCHANGED <<out_file, store_file, status, nrows, latest, idleVars>>

\* lines 359-362: a row whose normalized Name is empty is skipped
SkipRow(row_dict) ==
    /\ row' = Some(row_dict)
    /\ reply' = "none"
    /\ calls' = 0
    /\ llm_out' = None
    /\ store_file' = StoreFileAfterRow(store_file, store)
    /\ UNCHANGED <<out_file, pc, existing_objs, store, enable_mapping,
                   api_key, status, run_rows, latest>>

\* lines 364-385 for a row with a name
HandleRow(row_dict, key) ==
    LET objs == PlaceRow(existing_objs, key, row_dict)
        snap == SnapshotUserMappingsRefs(store, row_dict)
        n == ClassifierCalls(enable_mapping, api_key, snap, row_dict)
    IN  \E rep \in IF n > 0 THEN Replies ELSE {NoReply} :
          LET out == IF n > 0 THEN CallOpenrouter(rep) ELSE None
          IN  /\ row' = Some(row_dict)
              /\ reply' = rep.kind
              /\ calls' = n
              /\ llm_out' = out
              /\ IF TruthyJson(out) /\ Raises(out[1])
                 THEN \* the exception leaves write_json_pretty: nothing is written
                      /\ pc' = "idle"
                      /\ status' = "crashed"
                      /\ existing_objs' = <<>>
                      /\ store' = EmptyStore
                      /\ run_rows' = <<>>
                 ELSE /\ store' = IF TruthyJson(out)
                                  THEN UpdateStoreWithLlm(store, out[1]) ELSE store
                      /\ existing_objs' =
                            SetMappings(objs, key,
                                IF TruthyJson(out)
                                THEN RefreshedSnapshot(store, store', row_dict)
                                ELSE snap)
                      /\ run_rows' = Put(run_rows, key, Append(ListAt(run_rows, key), row_dict))
                      /\ UNCHANGED <<pc, status>>
              /\ store_file' = StoreFileAfterRow(store_file, store')
              /\ UNCHANGED <<out_file, enable_mapping, api_key, latest>>

\* one iteration of the loop of line 358
ProcessRow ==
    /\ pc = "rows"
    /\ nrows < MaxRows
    /\ nrows' = nrows + 1
    /\ \E cells \in RowInputs :
        LET row_dict == RowDict(cells)
            key == NormKey(Some(row_dict["Name"]))
        IN  IF key = <<>> THEN SkipRow(row_dict) ELSE HandleRow(row_dict, key)
    /\ UNCHANGED <<pre_out, pre_store, out_writes, store_writes, idleVars>>

\* lines 387-389: no row is left; the record list is written
WriteJson ==
    /\ pc = "rows"
    /\ out_file' = DumpObjs(existing_objs, store)
    /\ latest' = Extend(latest, run_rows)
    /\ pc' = "save_store"
    /\ out_writes' = out_writes + 1
    /\ UNCHANGED <<store_file, existing_objs, store, llm_out, enable_mapping, api_key,
                   row, reply, calls, status, nrows, run_rows, pre_out, pre_store,
                   store_writes, idleVars>>

\* line 392: the store is written, and write_json_pretty returns
SaveStore ==
    /\ pc = "save_store"
    /\ store_file' = Some(store)
    /\ pc' = "idle"
    /\ status' = "ok"
    /\ existing_objs' = <<>>
    /\ store' = EmptyStore
    /\ run_rows' = <<>>
    /\ store_writes' = store_writes + 1
    /\ UNCHANGED <<out_file, llm_out, enable_mapping, api_key, row, reply, calls,
                   nrows, latest, pre_out, pre_store, out_writes, idleVars>>

Next == RunNoValues \/ StartRun \/ ProcessRow \/ WriteJson \/ SaveStore

Spec == Init /\ [][Next]_vars

-----------------------------------------------------------------------------
(* Properties of the runs *)

\* a step that handles one row
RowStep == pc = "rows" /\ nrows' = nrows + 1

\* a step that handles a row with a name
NamedRowStep == RowStep /\ NormKey(Some(row'[1]["Name"])) # <<>>

\* a step in which the classifier answered and the answer was merged
MergedStep == NamedRowStep /\ pc' = "rows" /\ TruthyJson(llm_out')

\* the in-memory record of a row, and the entries its list for a category holds
RecordOf(objs, row_dict) == objs[IndexByName(objs, NormKey(Some(row_dict["Name"])))]
MappingsOf(objs, st, row_dict, cat) == Deref(st[cat], RecordOf(objs, row_dict).refs[cat])

\* the same for the row handled last
RowMappings == [cat \in Cats |-> MappingsOf(existing_objs, store, row[1], cat)]

\* every item's identity key is among the keys of a list
HoldsAll(lst, items) ==
    \A i \in 1..Len(items) : \E j \in 1..Len(lst) : KeyOf(lst[j]) = KeyOf(items[i])

WellShaped(json) ==
    json.shape = "object" /\ \A cat \in Cats : json.body[cat].t = "list"

\* the classifier call of this step failed
FailedCall ==
    /\ calls' = 1
    /\ \/ reply' \in {"neterr", "http", "badjson"}
       \/ reply' = "json" /\ ~WellShaped(llm_out'[1])

\* C5: a failed classifier call does not end the run, leaves the store as it
\* was, and leaves the record with the snapshot taken before the call
ClassifierFailureHarmless ==
    [][(NamedRowStep /\ FailedCall) =>
          /\ pc' = "rows"
          /\ status' = status
          /\ store' = store
          /\ RecordOf(existing_objs', row'[1]).refs =
                SnapshotUserMappingsRefs(store, row'[1])]_vars

\* some category of the row is not covered by the store
Uncovered(st, row_dict) ==
    \E cat \in Cats :
        /\ NormKey(Some(row_dict[cat])) # <<>>
        /\ SnapshotCat(st, row_dict, cat) = <<>>

\* C6 as claimed: with credentials, a row gets exactly one classifier call if
\* enrichment is enabled and a category is uncovered, and none otherwise
OneCallPerRow ==
    [][(RowStep /\ api_key) =>
          calls' = IF enable_mapping /\ Uncovered(store, row'[1]) THEN 1 ELSE 0]_vars

\* C6 as amended: the same for a row whose normalized Name is not empty; a row
\* without a name gets no call; no row gets more than one
OneCallPerNamedRow ==
    [][RowStep =>
          /\ calls' <= 1
          /\ api_key =>
                calls' = IF /\ enable_mapping
                            /\ NormKey(Some(row'[1]["Name"])) # <<>>
                            /\ Uncovered(store, row'[1])
                         THEN 1 ELSE 0]_vars

\* a named row with two uncovered categories (Role "a", Interest "a, b") got one
\* call, which failed, on an empty store
OneCallPerNamedRowWitness ==
    /\ pc = "rows"
    /\ row # None
    /\ row[1]["Role"] = <<97>>
    /\ row[1]["Interest"] = <<97, 44, 32, 98>>
    /\ store = EmptyStore
    /\ reply = "neterr"
    /\ calls = 1

\* the normalized names of the persisted records
OutNames == [i \in 1..Len(out_file) |-> NormKey(Some(out_file[i].fields["Name"]))]

\* C7: the output holds at most one record per non-empty normalized Name, and
\* its fields are those of the row of that name handled last
OutputDedupByName ==
    /\ \A i, j \in 1..Len(out_file) :
          (OutNames[i] = OutNames[j] /\ OutNames[i] # <<>>) => i = j
    /\ \A i \in 1..Len(out_file) :
          /\ OutNames[i] \in DOMAIN latest
          /\ out_file[i].fields = latest[OutNames[i]][Len(latest[OutNames[i]])]

\* rows named "Ann" and then " ann " have been written, and the output holds one
\* record, with the fields of the second
OutputDedupByNameWitness ==
    /\ Len(out_file) = 1
    /\ DOMAIN latest = {<<97, 110, 110>>}
    /\ Len(latest[<<97, 110, 110>>]) = 2
    /\ latest[<<97, 110, 110>>][1]["Name"] = <<65, 110, 110>>
    /\ latest[<<97, 110, 110>>][2]["Name"] = <<97, 110, 110>>
    /\ out_file[1].fields["Name"] = <<97, 110, 110>>
    /\ out_file[1].fields["Role"] = <<97>>

\* C8: every record of the persisted output is still in it, by normalized Name,
\* after any step of a run
RecordsNeverDeleted ==
    [][\A i \in 1..Len(out_file) :
          \E j \in 1..Len(out_file') :
              NormKey(Some(out_file'[j].fields["Name"])) = OutNames[i]]_vars

\* the step that writes the output file
WriteStep == pc = "rows" /\ pc' = "save_store"

\* C10 as claimed: every record handled in the run is written with the snapshot
\* of the final store for its fields
ViewOfFinalStore ==
    [][WriteStep =>
        \A i \in 1..Len(existing_objs) :
            existing_objs[i].live =>
                out_file'[i].mappings =
                    SnapshotUserMappingsFromStore(store, existing_objs[i].fields)]_vars

\* an entry is one the store holds in some bucket of the category
InStore(st, cat, e) ==
    \E t \in DOMAIN st[cat] : \E j \in 1..Len(st[cat][t]) : st[cat][t][j] = e

\* C10 as amended: every entry written for a record handled in the run is an
\* entry of the final store, with the values it has there; the record of the row
\* handled last is written with the snapshot of the final store
ViewOfStoreAtHandling ==
    [][WriteStep =>
        /\ \A i \in 1..Len(existing_objs) :
              existing_objs[i].live =>
                \A cat \in Cats :
                    \A k \in 1..Len(out_file'[i].mappings[cat]) :
                        InStore(store, cat, out_file'[i].mappings[cat][k])
        /\ (row # None /\ NormKey(Some(row[1]["Name"])) # <<>>) =>
              RowMappings = SnapshotUserMappingsFromStore(store, row[1])]_vars

\* the output was written with a record handled in the run (Bob, Interest "a")
\* that holds one entry of a bucket to which a later row's answer added a second
ViewOfStoreAtHandlingWitness ==
    /\ pc = "save_store"
    /\ <<98, 111, 98>> \in DOMAIN run_rows
    /\ <<97>> \in DOMAIN store["Interest"]
    /\ Len(store["Interest"][<<97>>]) = 2
    /\ \E i \in 1..Len(out_file) :
          /\ out_file[i].fields["Name"] = <<66, 111, 98>>
          /\ out_file[i].mappings["Interest"] = <<store["Interest"][<<97>>][1]>>
          /\ store["Interest"][<<97>>][1].explanation = Some(<<120, 59, 32, 121>>)

\* the run is in its row loop, or it ended there by an exception
StoppedInRows == pc = "rows" \/ (pc = "idle" /\ status = "crashed")

\* C11: a run writes the output file at most once and the store file at most
\* once, and neither while rows are being processed: as long as the run is in
\* its row loop, and when it stops there, both files hold what they held when
\* the run was entered
PersistOnlyAtEnd ==
    /\ out_writes <= 1
    /\ store_writes <= 1
    /\ StoppedInRows =>
          /\ out_writes = 0
          /\ store_writes = 0
          /\ out_file = pre_out
          /\ store_file = pre_store

\* a run over files written by an earlier run has handled a named row and
\* enriched the store in memory, and has not reached the end of its rows
PersistOnlyAtEndWitness ==
    /\ pc = "rows"
    /\ run_rows # <<>>
    /\ pre_out # <<>>
    /\ pre_store # None
    /\ store # pre_store[1]
    /\ out_file = pre_out
    /\ store_file = pre_store

=============================================================================
